---- MODULE Spec2Model ----
(***************************************************************************)
(* Permutation test of the notebook DecisionScience-03-Session-ChronicPain *)
(* (difference_of_means_abs, one_simulated_difference, the simulation loop *)
(* and empirical_P), modelled cell by cell.                                *)
(*                                                                         *)
(* A data frame is a record [columns, data]: `columns` is the ordered list *)
(* of column names and `data` maps each column name to its values, rows    *)
(* being positions 1..n (the RangeIndex 0..n-1 of read_csv).  Statistics   *)
(* are exact fractions [num, den] in lowest terms; the notebook computes   *)
(* them in binary floating point, which the model does not represent.      *)
(* DataFrame.mean is modelled as in pandas < 2.0, the version family the   *)
(* notebook was written for: non-numeric columns are dropped silently.     *)
(***************************************************************************)
EXTENDS Integers, Sequences, FiniteSets, TLC

VARIABLES bta_df, pc, observed_difference, recomputed, differences,
          repetitions, i, empirical_P, error

vars == <<bta_df, pc, observed_difference, recomputed, differences,
          repetitions, i, empirical_P, error>>

\* ------------------------------------------------------------------ bounds
MaxRows == 3
MaxReps == 2

\* ------------------------------------------------------------- input sets
\* Label values in the order groupby sorts them (lexicographic).
LabelOrder == <<"Control", "Placebo", "Treatment">>

Labels == {LabelOrder[k] : k \in 1..Len(LabelOrder)}

Outcomes == {0, 1}

None == [none |-> TRUE]

\* ---------------------------------------------------------------- helpers
Range(s) == {s[k] : k \in 1..Len(s)}

RECURSIVE SumSeq(_)
SumSeq(s) == IF s = <<>> THEN 0 ELSE s[1] + SumSeq(Tail(s))

RECURSIVE GCD(_, _)
GCD(a, b) == IF b = 0 THEN a ELSE GCD(b, a % b)

\* A fraction num/den with den > 0, reduced to lowest terms.
Frac(num, den) ==
    LET a == IF num < 0 THEN 0 - num ELSE num
        g == GCD(a, den)
    IN  [num |-> num \div g, den |-> den \div g]

\* x - y on fractions.
FracSub(x, y) == Frac(x.num * y.den - y.num * x.den, x.den * y.den)

\* x <= y on fractions.
FracLeq(x, y) == x.num * y.den <= y.num * x.den

NoAbs(x) == x

\* Python abs() on a fraction.
abs(x) == IF x.num < 0 THEN [num |-> 0 - x.num, den |-> x.den] ELSE x

\* ------------------------------------------------------------ data frames
DataFrame(group, result) ==
    [columns |-> <<"Group", "Result">>,
     data    |-> [c \in {"Group", "Result"} |->
                    IF c = "Group" THEN group ELSE result]]

NRows(df) == Len(df.data[df.columns[1]])

\* dtype of a column: the outcome column holds numbers, label columns strings.
IsNumeric(c) == c = "Result"

\* df.drop(name, axis=1)
Drop(df, name) ==
    [columns |-> SelectSeq(df.columns, LAMBDA c : c # name),
     data    |-> [c \in (DOMAIN df.data) \ {name} |-> df.data[c]]]

\* df[name] = values : replaces the column in place or appends a new one.
SetColumn(df, name, values) ==
    [columns |-> IF name \in Range(df.columns) THEN df.columns
                 ELSE Append(df.columns, name),
     data    |-> [c \in (DOMAIN df.data) \cup {name} |->
                    IF c = name THEN values ELSE df.data[c]]]

\* Group keys of df.groupby(group_label), sorted.
GroupKeys(df, group_label) ==
    SelectSeq(LabelOrder, LAMBDA l : l \in Range(df.data[group_label]))

\* Columns of df.groupby(group_label).mean(): the numeric non-key columns.
MeanColumns(df, group_label) ==
    SelectSeq(df.columns, LAMBDA c : c # group_label /\ IsNumeric(c))

GroupMeanOverAllRows(df, group_label, key, c) ==
    LET rows == {r \in 1..NRows(df) : df.data[group_label][r] = key}
        vals == [r \in 1..NRows(df) |->
                    IF r \in rows THEN df.data[c][r] ELSE 0]
    IN  Frac(SumSeq(vals), NRows(df))

\* One cell of df.groupby(group_label).mean(): mean of column c in group key.
GroupMean(df, group_label, key, c) ==
    LET rows == {r \in 1..NRows(df) : df.data[group_label][r] = key}
        vals == [r \in 1..NRows(df) |->
                    IF r \in rows THEN df.data[c][r] ELSE 0]
    IN  Frac(SumSeq(vals), Cardinality(rows))

Ok(v) == [ok |-> TRUE, value |-> v]

Raise(e) == [ok |-> FALSE, error |-> e]

\* def difference_of_means_abs(df, group_label)
difference_of_means_abs(df, group_label) ==
    LET keys == GroupKeys(df, group_label)
        cols == MeanColumns(df, group_label)
    IN  IF Len(keys) < 1 \/ Len(cols) < 1 THEN Raise("IndexError")
        ELSE IF Len(keys) < 2 THEN Raise("IndexError")
        ELSE LET one_value     == GroupMean(df, group_label, keys[1], cols[1])
                 another_value == GroupMean(df, group_label, keys[2], cols[1])
             IN  Ok(abs(FracSub(one_value, another_value)))

\* ---------------------------------------------------------------- shuffle
RowPermutations(n) ==
    {p \in [1..n -> 1..n] : \A a, b \in 1..n : p[a] = p[b] => a = b}

WithReplacement(n) == [1..n -> 1..n]

\* The permutations of 1..n for every frame length of the model, computed once.
PermutationTable == [n \in 0..(MaxRows + 1) |-> RowPermutations(n)]

\* Row orders df.sample(n=df.shape[0], replace=False) can produce.
SampleOrders(n) == PermutationTable[n]

\* temp_df = df.sample(...).reset_index(): row k of temp_df is row p[k] of df.
sample(df, p) ==
    [columns |-> <<"index">> \o df.columns,
     data    |-> [c \in (DOMAIN df.data) \cup {"index"} |->
                    IF c = "index" THEN [k \in 1..NRows(df) |-> p[k] - 1]
                    ELSE [k \in 1..NRows(df) |-> df.data[c][p[k]]]]]

\* Variant: the shuffled labels also overwrite the label column itself.
one_simulated_difference_in_place(df, group_label, p) ==
    LET temp_df == sample(df, p)
        caller  == SetColumn(SetColumn(df, "Shuffled Label",
                                       temp_df.data[group_label]),
                             group_label, temp_df.data[group_label])
        local   == Drop(caller, group_label)
    IN  [df |-> caller,
         result |-> difference_of_means_abs(local, "Shuffled Label")]

\* Variant: a later call shuffles the labels the previous call left behind.
one_simulated_difference_incremental(df, group_label, p) ==
    LET source  == IF "Shuffled Label" \in DOMAIN df.data
                   THEN "Shuffled Label" ELSE group_label
        temp_df == sample(df, p)
        caller  == SetColumn(df, "Shuffled Label", temp_df.data[source])
        local   == Drop(caller, group_label)
    IN  [df |-> caller,
         result |-> difference_of_means_abs(local, "Shuffled Label")]

\* Variant: the statistic is computed on the original labels.
one_simulated_difference_unshuffled(df, group_label, p) ==
    LET temp_df == sample(df, p)
        caller  == SetColumn(df, "Shuffled Label", temp_df.data[group_label])
    IN  [df |-> caller,
         result |-> difference_of_means_abs(df, group_label)]

\* def one_simulated_difference(df, group_label): the caller's frame after
\* the call (line 227 assigns into it) and the value returned.
one_simulated_difference(df, group_label, p) ==
    LET temp_df == sample(df, p)
        caller  == SetColumn(df, "Shuffled Label", temp_df.data[group_label])
        local   == Drop(caller, group_label)
    IN  [df |-> caller,
         result |-> difference_of_means_abs(local, "Shuffled Label")]

\* ------------------------------------------------------- the notebook run
\* pd.read_csv('./data/bta.csv'): any table of at most MaxRows labelled
\* 0/1 outcomes.
Datasets ==
    UNION {{DataFrame(g, r) : g \in [1..n -> Labels], r \in [1..n -> Outcomes]}
           : n \in 0..MaxRows}

\* Values tried for `repetitions` (the notebook sets 20000).
RepetitionValues == (0 - 1)..MaxReps

Init ==
    /\ bta_df \in Datasets
    /\ pc = "observed_difference"
    /\ observed_difference = None
    /\ recomputed = None
    /\ differences = <<>>
    /\ repetitions = 0
    /\ i = 0
    /\ empirical_P = None
    /\ error = "none"

\* observed_difference = difference_of_means_abs(bta_df, 'Group')
ObservedDifference ==
    /\ pc = "observed_difference"
    /\ LET r == difference_of_means_abs(bta_df, "Group")
       IN  IF r.ok
           THEN /\ observed_difference' = r.value
                /\ pc' = "try_one"
                /\ error' = error
           ELSE /\ observed_difference' = observed_difference
                /\ pc' = "error"
                /\ error' = r.error
    /\ UNCHANGED <<bta_df, recomputed, differences, repetitions, i,
                   empirical_P>>

\* one_simulated_difference(bta_df, 'Group'), in the cell commented "Run
\* several times and see how output changes": it may be run again and again.
TryOneSimulatedDifference ==
    /\ pc = "try_one"
    /\ \E p \in SampleOrders(NRows(bta_df)) :
          LET c == one_simulated_difference(bta_df, "Group", p)
          IN  /\ bta_df' = c.df
              /\ IF c.result.ok
                 THEN /\ pc' = pc
                      /\ error' = error
                 ELSE /\ pc' = "error"
                      /\ error' = c.result.error
    /\ UNCHANGED <<observed_difference, recomputed, differences, repetitions,
                   i, empirical_P>>

\* difference_of_means_abs(bta_df, 'Group'), the cell after the trial calls
RecomputeObserved ==
    /\ pc = "try_one"
    /\ LET r == difference_of_means_abs(bta_df, "Group")
       IN  IF r.ok
           THEN /\ recomputed' = r.value
                /\ pc' = "loop_init"
                /\ error' = error
           ELSE /\ recomputed' = recomputed
                /\ pc' = "error"
                /\ error' = r.error
    /\ UNCHANGED <<bta_df, observed_difference, differences,
                   repetitions, i, empirical_P>>

\* differences = [] ; repetitions = ...
LoopInit ==
    /\ pc = "loop_init"
    /\ differences' = <<>>
    /\ repetitions' \in RepetitionValues
    /\ i' = 0
    /\ pc' = "loop"
    /\ UNCHANGED <<bta_df, observed_difference, recomputed,
                   empirical_P, error>>

LoopHasNextInclusive(done, reps) == done <= reps

\* for i in np.arange(repetitions): the loop has another index to visit.
LoopHasNext(done, reps) == done < reps

\* One pass of the loop body: new_difference = one_simulated_difference(...);
\* differences.append(new_difference)
LoopBody ==
    /\ pc = "loop"
    /\ LoopHasNext(i, repetitions)
    /\ \E p \in SampleOrders(NRows(bta_df)) :
          LET c == one_simulated_difference(bta_df, "Group", p)
          IN  /\ bta_df' = c.df
              /\ IF c.result.ok
                 THEN /\ differences' = Append(differences, c.result.value)
                      /\ i' = i + 1
                      /\ pc' = pc
                      /\ error' = error
                 ELSE /\ differences' = differences
                      /\ i' = i
                      /\ pc' = "error"
                      /\ error' = c.result.error
    /\ UNCHANGED <<observed_difference, recomputed, repetitions,
                   empirical_P>>

\* np.arange(repetitions) is exhausted: the loop cell ends.
LoopExit ==
    /\ pc = "loop"
    /\ ~LoopHasNext(i, repetitions)
    /\ pc' = "empirical_P"
    /\ UNCHANGED <<bta_df, observed_difference, recomputed,
                   differences, repetitions, i, empirical_P, error>>

\* np.count_nonzero(differences <= observed_difference): the comparison is
\* elementwise, computed as observed_difference >= each element.
CountNonzeroLeqPlusOne(ds, obs) ==
    Cardinality({k \in 1..Len(ds) : FracLeq(ds[k], obs)}) + 1

CountNonzeroLeq(ds, obs) ==
    Cardinality({k \in 1..Len(ds) : FracLeq(ds[k], obs)})

\* empirical_P = np.count_nonzero(differences <= observed_difference) / repetitions
EmpiricalP ==
    /\ pc = "empirical_P"
    /\ IF repetitions = 0
       THEN /\ empirical_P' = empirical_P
            /\ pc' = "error"
            /\ error' = "ZeroDivisionError"
       ELSE /\ empirical_P' =
                 [num |-> CountNonzeroLeq(differences, observed_difference),
                  den |-> repetitions]
            /\ pc' = "done"
            /\ error' = error
    /\ UNCHANGED <<bta_df, observed_difference, recomputed,
                   differences, repetitions, i>>

Next ==
    \/ ObservedDifference
    \/ TryOneSimulatedDifference
    \/ RecomputeObserved
    \/ LoopInit
    \/ LoopBody
    \/ LoopExit
    \/ EmpiricalP

Spec == Init /\ [][Next]_vars

TypeOK ==
    /\ pc \in {"observed_difference", "try_one", "loop_init", "loop",
               "empirical_P", "done", "error"}
    /\ error \in {"none", "IndexError", "ZeroDivisionError"}
    /\ i \in 0..(MaxReps + 1)

\* ---------------------------------------- the statistic on its own
\* 3 of 5 with relief in one group, 1 of 16 in the other.
Scenario_3of5_1of16 ==
    DataFrame([r \in 1..21 |-> IF r <= 5 THEN "Treatment" ELSE "Control"],
              [r \in 1..21 |-> IF r <= 3 \/ r = 6 THEN 1 ELSE 0])

\* The trial data described in the notebook: 9 of 15 treated patients and
\* 2 of 16 controls had pain relief.
Scenario_9of15_2of16 ==
    DataFrame([r \in 1..31 |-> IF r <= 16 THEN "Control" ELSE "Treatment"],
              [r \in 1..31 |-> IF r <= 2 \/ (r > 16 /\ r <= 25) THEN 1 ELSE 0])

InitStat ==
    /\ bta_df \in Datasets \cup {Scenario_3of5_1of16, Scenario_9of15_2of16}
    /\ pc = "observed_difference"
    /\ observed_difference = None
    /\ recomputed = None
    /\ differences = <<>>
    /\ repetitions = 0
    /\ i = 0
    /\ empirical_P = None
    /\ error = "none"

NextStat == ObservedDifference

SpecStat == InitStat /\ [][NextStat]_vars

\* ------------------------------------------------------------- properties
GroupValues(df) == Range(df.data["Group"])

Count(s, v) == Cardinality({k \in 1..Len(s) : s[k] = v})

HasShuffled(df) == "Shuffled Label" \in DOMAIN df.data

\* C1: for R > 0 the empirical p-value equals the number of null-distribution
\* values greater than or equal to the observed statistic, divided by R.
C1_PValueIsFractionGeq ==
    (pc = "done" /\ repetitions > 0
        /\ Cardinality(GroupValues(bta_df)) = 2) =>
        empirical_P =
            [num |-> Cardinality({k \in 1..Len(differences) :
                        FracLeq(observed_difference, differences[k])}),
             den |-> repetitions]

\* C2: for R > 0, once the loop has finished `differences` has exactly R
\* elements, one appended per call of one_simulated_difference, each a
\* non-negative number.
C2_NullDistributionLength ==
    /\ (pc \in {"loop", "empirical_P", "done"}) => Len(differences) = i
    /\ (pc \in {"empirical_P", "done"} /\ repetitions > 0) =>
          /\ Len(differences) = repetitions
          /\ \A k \in 1..Len(differences) :
                differences[k].num >= 0 /\ differences[k].den > 0

C2_Witness ==
    pc = "done" /\ repetitions >= 2 /\ Len(differences) = repetitions

\* C3: after every simulated trial, first or later, each label value occurs
\* in 'Shuffled Label' as often as in the original label column.
C3_ShufflePreservesGroupSizes ==
    HasShuffled(bta_df) =>
        \A l \in Labels :
            Count(bta_df.data["Shuffled Label"], l)
                = Count(bta_df.data["Group"], l)

C3_Witness ==
    /\ HasShuffled(bta_df)
    /\ Cardinality(GroupValues(bta_df)) = 2
    /\ i >= 2
    /\ bta_df.data["Shuffled Label"] # bta_df.data["Group"]

\* C4: the input dataset is never mutated: no step changes its columns or
\* its values.
C4_DatasetNeverMutated == [][bta_df' = bta_df]_vars

\* C5: no p-value is produced when repetitions <= 0.
C5_NonPositiveRepetitionsFail == (empirical_P # None) => repetitions > 0

\* C6: difference_of_means_abs returns a statistic only when the label
\* column holds exactly two distinct values.
C6_RequiresExactlyTwoLabels ==
    (observed_difference # None) => Cardinality(GroupValues(bta_df)) = 2

\* C7: with exactly two groups A and B, difference_of_means_abs returns
\* |ones(A)/|A| - ones(B)/|B||; it is 43/80 for 3 of 5 against 1 of 16 and
\* 0.475 = 19/40 for 9 of 15 against 2 of 16.
Ones(df, l) ==
    Cardinality({r \in 1..NRows(df) :
                    df.data["Group"][r] = l /\ df.data["Result"][r] = 1})

Size(df, l) == Count(df.data["Group"], l)

C7_StatisticIsAbsDifferenceOfProportions ==
    /\ (pc = "try_one" /\ Cardinality(GroupValues(bta_df)) = 2) =>
          \A a, b \in GroupValues(bta_df) :
              a # b =>
                 LET d == Ones(bta_df, a) * Size(bta_df, b)
                            - Ones(bta_df, b) * Size(bta_df, a)
                 IN  observed_difference.num * Size(bta_df, a) * Size(bta_df, b)
                        = (IF d < 0 THEN 0 - d ELSE d) * observed_difference.den
    /\ (pc = "try_one" /\ bta_df = Scenario_3of5_1of16) =>
          observed_difference = [num |-> 43, den |-> 80]
    /\ (pc = "try_one" /\ bta_df = Scenario_9of15_2of16) =>
          observed_difference = [num |-> 19, den |-> 40]

C7_Witness ==
    /\ pc = "try_one"
    /\ bta_df = Scenario_3of5_1of16
    /\ observed_difference = [num |-> 43, den |-> 80]

\* C8: for R > 0 the empirical p-value lies in [0, 1].
C8_PValueInUnitInterval ==
    (empirical_P # None /\ repetitions > 0) =>
        /\ 0 <= empirical_P.num
        /\ empirical_P.num <= empirical_P.den

C8_Witness ==
    /\ pc = "done"
    /\ repetitions >= 2
    /\ empirical_P.num = empirical_P.den

\* C9: with two groups, difference_of_means_abs returns the same value when
\* the two label values are exchanged.
SwapLabels(df) ==
    LET g == df.data["Group"]
        other(l) == CHOOSE m \in GroupValues(df) : m # l
    IN  [df EXCEPT !.data["Group"] = [r \in 1..Len(g) |-> other(g[r])]]

C9_SymmetricUnderLabelSwap ==
    (pc = "try_one" /\ Cardinality(GroupValues(bta_df)) = 2) =>
        difference_of_means_abs(SwapLabels(bta_df), "Group")
            = Ok(observed_difference)

C9_Witness ==
    /\ pc = "try_one"
    /\ Cardinality(GroupValues(bta_df)) = 2
    /\ observed_difference.num > 0
    /\ SwapLabels(bta_df) # bta_df

C11_ObservedStatisticRepeatable ==
    /\ (recomputed # None) => recomputed = observed_difference
    /\ (observed_difference # None /\ pc # "error") =>
          difference_of_means_abs(bta_df, "Group") = Ok(observed_difference)

C11_Witness ==
    /\ pc = "loop_init"
    /\ recomputed = observed_difference
    /\ recomputed.num > 0
    /\ HasShuffled(bta_df)
    /\ bta_df.data["Shuffled Label"] # bta_df.data["Group"]

\* The dataset as loaded: the label and outcome columns only.
Loaded(df) == DataFrame(df.data["Group"], df.data["Result"])

\* In this state the shuffled labels are the original labels in some row
\* order (the same values, each as often), and where a further call is due
\* it leaves the caller's frame and returns, for every row order, what a
\* first call on the loaded dataset does.
C12_EveryTrialStartsFromOriginalLabels ==
    LET n == NRows(bta_df)
        g == bta_df.data["Group"]
    IN  /\ HasShuffled(bta_df) =>
              /\ Len(bta_df.data["Shuffled Label"]) = n
              /\ \A l \in Range(g) \cup Range(bta_df.data["Shuffled Label"]) :
                    Count(bta_df.data["Shuffled Label"], l) = Count(g, l)
        /\ (/\ HasShuffled(bta_df)
            /\ \/ pc = "try_one"
               \/ pc = "loop" /\ LoopHasNext(i, repetitions)) =>
              \A p \in SampleOrders(n) :
                  one_simulated_difference(bta_df, "Group", p)
                     = one_simulated_difference(Loaded(bta_df), "Group", p)

\* C12: every call of one_simulated_difference reassigns all labels from the
\* original label column, not from the labels the previous calls left: the
\* label column never changes, the shuffled labels are the original labels
\* in some row order, and for every row order the labels assigned and the
\* value returned are the same as in a first call on the freshly loaded
\* dataset, so trial k can produce exactly the relabelings of trial 1.
C12_IndependentTrials ==
    /\ []C12_EveryTrialStartsFromOriginalLabels
    /\ [][bta_df'.data["Group"] = bta_df.data["Group"]]_vars

C12_Witness ==
    /\ pc = "loop"
    /\ i >= 1
    /\ i < repetitions
    /\ Cardinality(GroupValues(bta_df)) = 2
    /\ bta_df.data["Shuffled Label"] # bta_df.data["Group"]

\* C13: one_simulated_difference leaves every outcome in its place, gives
\* position k the original label of position p(k) for the row order p the
\* shuffle chose, and returns difference_of_means_abs of that relabeled
\* dataset; with two label values every observation carries one of the two
\* and the value is |ones(A)/|A| - ones(B)/|B|| of the relabeled groups.
Relabeled(df) == DataFrame(df.data["Shuffled Label"], df.data["Result"])

C13_SimulatedIsStatisticOfRelabeled ==
    (pc \in {"loop", "empirical_P", "done"} /\ i >= 1) =>
        LET n  == NRows(bta_df)
            g  == bta_df.data["Group"]
            rd == Relabeled(bta_df)
            v  == differences[i]
        IN  /\ \E p \in SampleOrders(n) :
                  rd.data["Group"] = [k \in 1..n |-> g[p[k]]]
            /\ difference_of_means_abs(rd, "Group") = Ok(v)
            /\ (Cardinality(GroupValues(bta_df)) = 2) =>
                  /\ \A k \in 1..n : rd.data["Group"][k] \in GroupValues(bta_df)
                  /\ \A a, b \in GroupValues(bta_df) :
                        a # b =>
                           LET d == Ones(rd, a) * Size(rd, b)
                                      - Ones(rd, b) * Size(rd, a)
                           IN  v.num * Size(rd, a) * Size(rd, b)
                                  = (IF d < 0 THEN 0 - d ELSE d) * v.den

C13_Witness ==
    /\ pc = "done"
    /\ i >= 1
    /\ Cardinality(GroupValues(bta_df)) = 2
    /\ bta_df.data["Shuffled Label"] # bta_df.data["Group"]
    /\ differences[i] # observed_difference

====
